---- MODULE Spec2Model ----
(***************************************************************************)
(* Model of the redirs protocol crate (crates/protocol/src/lib.rs):        *)
(* the RESP value model, the encoder RedirsValue::write_resp_str writing   *)
(* into an io::Write sink, and the Lexer over a borrowed input string.     *)
(* Bytes are one-character strings; a Rust String is a sequence of them.   *)
(***************************************************************************)
EXTENDS Integers, Sequences, FiniteSets, TLC

VARIABLES
    value,      \* encoder: the RedirsValue passed to write_resp_str
    sink,       \* encoder: the io::Write sink `out` after the call
    result,     \* encoder: "none" before a call, then "ok" / "err"
    input,      \* lexer: the string the Lexer was constructed over
    buffer,     \* lexer: Lexer.buffer
    curr_pos,   \* lexer: Lexer.curr_pos
    taken,      \* lexer: tokens returned and terminators accepted so far, concatenated
    preBuffer,  \* lexer: Lexer.buffer before the last call
    prePos,     \* lexer: Lexer.curr_pos before the last call
    lastOp,     \* lexer: the last method called
    lastRes,    \* lexer: what the last call returned
    cmdArgs,    \* command translator: the parsed value handed to it
    cmdRes      \* command translator: its result

encVars == <<value, sink, result>>
lexVars == <<input, buffer, curr_pos, taken, preBuffer, prePos, lastOp, lastRes>>
cmdVars == <<cmdArgs, cmdRes>>
vars == <<value, sink, result, input, buffer, curr_pos, taken, preBuffer, prePos,
          lastOp, lastRes, cmdArgs, cmdRes>>

(***************************************************************************)
(* Bounds of the model.                                                    *)
(***************************************************************************)
MaxStrLen == 2      \* longest String payload of a scalar value
MaxChildren == 2    \* most children of an aggregate value
MaxFailAt == 8      \* latest sink call that may be made to fail
MaxBufLen == 4      \* longest hand-built lexer input
MaxArgs == 3        \* most arguments after the command name

(***************************************************************************)
(* Strings.                                                                *)
(***************************************************************************)
CR == "\r"
LF == "\n"
SPACER == <<CR, LF>>

Alphabet == {"x", CR, LF}

SeqsUpTo(S, n) == UNION {[1..k -> S] : k \in 0..n}

Strs == SeqsUpTo(Alphabet, MaxStrLen)

RECURSIVE Concat(_)
Concat(ss) == IF ss = <<>> THEN <<>> ELSE Head(ss) \o Concat(Tail(ss))

IsPrefix(p, s) == Len(p) <= Len(s) /\ SubSeq(s, 1, Len(p)) = p

DigitChars == <<"0", "1", "2", "3", "4", "5", "6", "7", "8", "9">>

\* Display for an unsigned integer: its decimal digits, most significant first.
RECURSIVE DisplayUsize(_)
DisplayUsize(n) ==
    IF n < 10 THEN <<DigitChars[n + 1]>>
    ELSE DisplayUsize(n \div 10) \o <<DigitChars[(n % 10) + 1]>>

\* Display for i64, as the pieces the formatter hands to the sink: the sign
\* is written on its own, before the digits.
DisplayI64(i) ==
    IF i < 0 THEN <<(<<"-">>), DisplayUsize(0 - i)>> ELSE <<DisplayUsize(i)>>

\* the length of the formatter's block of zeros: a longer run of padding
\* zeros is written block by block
ZeroChunk == 64

\* n zeros
Zeros(n) == [i \in 1..n |-> "0"]

\* The pieces written for a run of n padding zeros: whole blocks while more
\* than a block is left, then the rest in one piece; nothing for n = 0.
RECURSIVE ZeroPieces(_)
ZeroPieces(n) ==
    IF n > ZeroChunk THEN <<Zeros(ZeroChunk)>> \o ZeroPieces(n - ZeroChunk)
    ELSE IF n > 0 THEN <<Zeros(n)>>
    ELSE <<>>

\* Display for f64, as the pieces the formatter hands to the sink.  A finite
\* non-zero double is given by its shortest decimal digits and exponent
\* (0.digits * 10^exp) and is printed without exponent: the sign on its
\* own, then `0.`, zeros, digits below 1; integer digits, `.`, fraction
\* digits when the point falls inside the digits; digits, then the trailing
\* zeros as pieces of their own, for an integral value.  NaN has no sign.
DisplayF64(d) ==
    LET sign == IF d.kind # "nan" /\ d.neg THEN <<(<<"-">>)>> ELSE <<>>
        n == Len(d.digits)
    IN  sign \o
        CASE d.kind = "nan" -> <<(<<"N", "a", "N">>)>>
          [] d.kind = "inf" -> <<(<<"i", "n", "f">>)>>
          [] d.kind = "zero" -> <<(<<"0">>)>>
          [] d.kind = "fin" /\ d.exp <= 0 ->
                <<(<<"0", ".">>)>> \o ZeroPieces(0 - d.exp) \o <<d.digits>>
          [] d.kind = "fin" /\ d.exp > 0 /\ d.exp < n ->
                <<SubSeq(d.digits, 1, d.exp), (<<".">>), SubSeq(d.digits, d.exp + 1, n)>>
          [] d.kind = "fin" /\ d.exp >= n ->
                <<d.digits>> \o ZeroPieces(d.exp - n)

DisplaySign(sign) == IF sign = "Positive" THEN <<"+">> ELSE <<"-">>

DisplayVerbatimEncoding(enc) ==
    IF enc = "Txt" THEN <<"t", "x", "t">> ELSE <<"m", "r", "k">>

(***************************************************************************)
(* RedirsValue.                                                            *)
(***************************************************************************)
SimpleString(s) == [t |-> "SimpleString", s |-> s]
SimpleError(s) == [t |-> "SimpleError", s |-> s]
Integer(i) == [t |-> "Integer", i |-> i]
BulkString(some, s) == [t |-> "BulkString", some |-> some, s |-> s]
Array(some, items) == [t |-> "Array", some |-> some, items |-> items]
Null == [t |-> "Null"]
Bool(b) == [t |-> "Bool", b |-> b]
Double(kind, neg, digits, exp) ==
    [t |-> "Double", kind |-> kind, neg |-> neg, digits |-> digits, exp |-> exp]
BigNumber(sign, digits) == [t |-> "BigNumber", sign |-> sign, digits |-> digits]
BulkError(s) == [t |-> "BulkError", s |-> s]
VerbatimString(enc, s) == [t |-> "VerbatimString", enc |-> enc, s |-> s]
Map(entries) == [t |-> "Map", entries |-> entries]
Set(members) == [t |-> "Set", members |-> members]
Push(items) == [t |-> "Push", items |-> items]

NoValue == [t |-> "none"]

(***************************************************************************)
(* The sink: an io::Write whose failAt-th write call fails (0: none does). *)
(* A failed call writes nothing; the sink accepts later calls again.       *)
(***************************************************************************)
NewSink(failAt) == [out |-> <<>>, calls |-> 0, log |-> <<>>, failAt |-> failAt]

\* One piece of a write!: write_all on the sink.  An empty piece makes no
\* call on the sink.
WriteStr(s, piece) ==
    IF piece = <<>> THEN [sink |-> s, ok |-> TRUE]
    ELSE IF s.calls + 1 = s.failAt
         THEN [sink |-> [s EXCEPT !.calls = s.calls + 1], ok |-> FALSE]
         ELSE [sink |-> [s EXCEPT !.calls = s.calls + 1,
                                  !.out = s.out \o piece,
                                  !.log = Append(s.log, piece)],
               ok |-> TRUE]

\* write!(out, ...): the pieces of the format string in order, stopping at
\* the first piece the sink refuses.
RECURSIVE WriteFmt(_, _)
WriteFmt(s, pieces) ==
    IF pieces = <<>> THEN [sink |-> s, ok |-> TRUE]
    ELSE LET r == WriteStr(s, Head(pieces))
         IN  IF r.ok THEN WriteFmt(r.sink, Tail(pieces)) ELSE r

(***************************************************************************)
(* RedirsValue::write_resp_str.                                            *)
(***************************************************************************)
\* s.len() of the BulkString / BulkError header
\* A variant that counts the payload as a line: up to its first CR or LF.
BulkLenAsLine(s) ==
    IF \A i \in 1..Len(s) : s[i] \notin {CR, LF} THEN Len(s)
    ELSE (CHOOSE i \in 1..Len(s) :
              /\ s[i] \in {CR, LF}
              /\ \A j \in 1..(i - 1) : s[j] \notin {CR, LF}) - 1

BulkLen(s) == Len(s)

\* s.len() + 4 of the VerbatimString header
VerbatimLen(s) == Len(s) + 4

\* BulkString(None)
\* A variant that writes the null bulk string as the empty one.
WriteNullBulkAsEmpty(s) == WriteFmt(s, <<(<<"$", "0">>), SPACER, SPACER>>)

WriteNullBulk(s) == WriteFmt(s, <<(<<"$", "-", "1">>), SPACER>>)

\* Array(None)
WriteNullArray(s) == WriteFmt(s, <<(<<"*", "-", "1">>), SPACER>>)

\* the count header of an aggregate: prefix byte, element count, terminator
WriteCountHeader(s, prefix, n) == WriteFmt(s, <<(<<prefix>>), DisplayUsize(n), SPACER>>)

RECURSIVE WriteRespStr(_, _)
RECURSIVE WriteChildren(_, _)
RECURSIVE WriteEntries(_, _)
RECURSIVE WriteChildrenNoStop(_, _)
RECURSIVE WriteChildrenReversed(_, _)

\* A variant that keeps encoding the children after one of them failed.
WriteChildrenNoStop(s, items) ==
    IF items = <<>> THEN [sink |-> s, ok |-> TRUE]
    ELSE LET r == WriteRespStr(s, Head(items))
             rest == WriteChildrenNoStop(r.sink, Tail(items))
         IN  [sink |-> rest.sink, ok |-> r.ok /\ rest.ok]

\* A variant that encodes the children last to first.
WriteChildrenReversed(s, items) ==
    IF items = <<>> THEN [sink |-> s, ok |-> TRUE]
    ELSE LET r == WriteRespStr(s, items[Len(items)])
         IN  IF r.ok THEN WriteChildrenReversed(r.sink, SubSeq(items, 1, Len(items) - 1))
             ELSE r

\* iter().map(|t| t.write_resp_str(out)).find(|x| x.is_err()).unwrap_or(Ok(())):
\* the children in order, up to and including the first that fails.
WriteChildren(s, items) ==
    IF items = <<>> THEN [sink |-> s, ok |-> TRUE]
    ELSE LET r == WriteRespStr(s, Head(items))
         IN  IF r.ok THEN WriteChildren(r.sink, Tail(items)) ELSE r

\* The Map loop: key then value of each entry in map order; a failing key
\* skips its value, and the first failing entry ends the loop.
WriteEntries(s, entries) ==
    IF entries = <<>> THEN [sink |-> s, ok |-> TRUE]
    ELSE LET k == WriteRespStr(s, Head(entries)[1])
         IN  IF ~k.ok THEN k
             ELSE LET v == WriteRespStr(k.sink, Head(entries)[2])
                  IN  IF v.ok THEN WriteEntries(v.sink, Tail(entries)) ELSE v

WriteRespStr(s, v) ==
    CASE v.t = "SimpleString" -> WriteFmt(s, <<(<<"+">>), v.s, SPACER>>)
      [] v.t = "SimpleError" -> WriteFmt(s, <<(<<"-">>), v.s, SPACER>>)
      [] v.t = "Integer" -> WriteFmt(s, <<(<<":">>)>> \o DisplayI64(v.i) \o <<SPACER>>)
      [] v.t = "BulkString" ->
            IF v.some
            THEN WriteFmt(s, <<(<<"$">>), DisplayUsize(BulkLen(v.s)), SPACER, v.s, SPACER>>)
            ELSE WriteNullBulk(s)
      [] v.t = "Array" ->
            IF v.some
            THEN LET h == WriteCountHeader(s, "*", Len(v.items))
                 IN  IF h.ok THEN WriteChildren(h.sink, v.items) ELSE h
            ELSE WriteNullArray(s)
      [] v.t = "Null" -> WriteFmt(s, <<(<<"_">>), SPACER>>)
      [] v.t = "Bool" ->
            IF v.b THEN WriteFmt(s, <<(<<"#", "t">>), SPACER>>)
            ELSE WriteFmt(s, <<(<<"#", "f">>), SPACER>>)
      [] v.t = "Double" ->
            WriteFmt(s, <<(<<",">>)>> \o DisplayF64(v) \o <<SPACER>>)
      [] v.t = "BigNumber" ->
            WriteFmt(s, <<(<<"(">>), DisplaySign(v.sign), v.digits, SPACER>>)
      [] v.t = "BulkError" ->
            WriteFmt(s, <<(<<"!">>), DisplayUsize(BulkLen(v.s)), SPACER, v.s, SPACER>>)
      [] v.t = "VerbatimString" ->
            WriteFmt(s, <<(<<"=">>), DisplayUsize(VerbatimLen(v.s)), SPACER,
                          DisplayVerbatimEncoding(v.enc), (<<":">>), v.s, SPACER>>)
      [] v.t = "Map" ->
            LET h == WriteCountHeader(s, "%", Len(v.entries))
            IN  IF h.ok THEN WriteEntries(h.sink, v.entries) ELSE h
      [] v.t = "Set" ->
            LET h == WriteCountHeader(s, "~", Len(v.members))
            IN  IF h.ok THEN WriteChildren(h.sink, v.members) ELSE h
      [] v.t = "Push" ->
            LET h == WriteCountHeader(s, ">", Len(v.items))
            IN  IF h.ok THEN WriteChildren(h.sink, v.items) ELSE h

\* The bytes write_resp_str leaves in a sink that never fails.
Encoded(v) == WriteRespStr(NewSink(0), v).sink.out

\* The write calls write_resp_str makes on a sink that never fails.
Pieces(v) == WriteRespStr(NewSink(0), v).sink.log

(***************************************************************************)
(* The values the encoder is run on.  RedirsValue implements neither Ord   *)
(* nor Eq + Hash, so no entry can be inserted into the BTreeMap of a Map   *)
(* or the HashSet of a Set: both are always empty.                         *)
(***************************************************************************)
Ints == {-1, 0, 1, 12}

\* NaN, inf, -inf, 0, -0, 1, -1, 12, 10, 100, 120, 1.5, 0.5, 0.05, and values
\* with 64, 65, 70 and 129 padding zeros: 1e64, 1e65, 1e70, 1e129, 1e-66
Doubles ==
    {Double("fin", FALSE, <<"1">>, 65), Double("fin", FALSE, <<"1">>, 66),
     Double("fin", FALSE, <<"1">>, 71), Double("fin", FALSE, <<"1">>, 130),
     Double("fin", FALSE, <<"1">>, -65)} \cup
    {Double("nan", FALSE, <<>>, 0), Double("inf", FALSE, <<>>, 0),
     Double("inf", TRUE, <<>>, 0), Double("zero", FALSE, <<>>, 0),
     Double("zero", TRUE, <<>>, 0),
     Double("fin", FALSE, <<"1">>, 1), Double("fin", TRUE, <<"1">>, 1),
     Double("fin", FALSE, <<"1", "2">>, 2), Double("fin", FALSE, <<"1">>, 2),
     Double("fin", FALSE, <<"1">>, 3), Double("fin", FALSE, <<"1", "2">>, 3),
     Double("fin", FALSE, <<"1", "5">>, 1), Double("fin", FALSE, <<"5">>, 0),
     Double("fin", FALSE, <<"5">>, -1)}

DigitStrs == {<<"1">>, <<"1", "2">>}

Scalars ==
    {SimpleString(s) : s \in Strs} \cup {SimpleError(s) : s \in Strs}
    \cup {Integer(i) : i \in Ints}
    \cup {BulkString(TRUE, s) : s \in Strs} \cup {BulkString(FALSE, <<>>)}
    \cup {Array(FALSE, <<>>), Null, Bool(TRUE), Bool(FALSE)}
    \cup Doubles
    \cup {BigNumber(sg, d) : sg \in {"Positive", "Negative"}, d \in DigitStrs}
    \cup {BulkError(s) : s \in Strs}
    \cup {VerbatimString(e, s) : e \in {"Txt", "Mrk"}, s \in Strs}
    \cup {Map(<<>>), Set(<<>>)}

\* children of the one-level aggregates
Leaves ==
    {SimpleString(<<"x">>), Integer(1), BulkString(TRUE, <<CR, LF>>),
     Array(FALSE, <<>>), Map(<<>>), Set(<<>>), Double("fin", FALSE, <<"1">>, 66)}

AggregatesOver(pool) ==
    {Array(TRUE, items) : items \in SeqsUpTo(pool, MaxChildren)}
    \cup {Push(items) : items \in SeqsUpTo(pool, MaxChildren)}

\* children of the nested aggregates
InnerLeaves == {SimpleString(<<"x">>), Integer(1)}
Inner == {Array(TRUE, <<SimpleString(<<"x">>)>>), Push(<<Integer(1)>>), Array(TRUE, <<>>)}

Values == Scalars \cup AggregatesOver(Leaves) \cup AggregatesOver(InnerLeaves \cup Inner)

\* examples/simple.rs
SimpleExample == Array(TRUE, <<SimpleString(<<"o", "l", "l", "a", "r", "e">>), Integer(12)>>)

EncInputs == Values \cup {SimpleExample}

(***************************************************************************)
(* The encoder as a state machine: a behaviour is one call of             *)
(* write_resp_str on a fresh sink.                                         *)
(***************************************************************************)
EncodeAction ==
    \E v \in EncInputs, f \in 0..MaxFailAt :
        LET r == WriteRespStr(NewSink(f), v)
        IN  /\ result = "none"
            /\ value' = v
            /\ sink' = r.sink
            /\ result' = IF r.ok THEN "ok" ELSE "err"
            /\ UNCHANGED <<lexVars, cmdVars>>

LexIdle ==
    /\ input = <<>> /\ buffer = <<>> /\ curr_pos = 0 /\ taken = <<>>
    /\ preBuffer = <<>> /\ prePos = 0 /\ lastOp = "none"
    /\ lastRes = [kind |-> "none"]

CmdIdle == cmdArgs = NoValue /\ cmdRes = [kind |-> "none"]

EncIdle == value = NoValue /\ sink = NewSink(0) /\ result = "none"

InitEnc == EncIdle /\ LexIdle /\ CmdIdle

NextEnc == EncodeAction

SpecEnc == InitEnc /\ [][NextEnc]_vars

(***************************************************************************)
(* Reading an encoding back, for the properties of the encoder.            *)
(***************************************************************************)
IsDigits(ds) == ds # <<>> /\ \A i \in 1..Len(ds) : \E d \in 0..9 : DigitChars[d + 1] = ds[i]

DigitValue(c) == CHOOSE d \in 0..9 : DigitChars[d + 1] = c

RECURSIVE ParseDecimal(_)
ParseDecimal(ds) ==
    IF ds = <<>> THEN 0
    ELSE 10 * ParseDecimal(SubSeq(ds, 1, Len(ds) - 1)) + DigitValue(ds[Len(ds)])

HasSpacerAt(bs, i) == i + 1 <= Len(bs) /\ bs[i] = CR /\ bs[i + 1] = LF

\* index of the first CR LF of bs
FirstSpacer(bs) ==
    CHOOSE i \in 1..Len(bs) : HasSpacerAt(bs, i) /\ \A j \in 1..(i - 1) : ~HasSpacerAt(bs, j)

\* the text between the prefix byte and the first terminator
HeaderText(bs) == SubSeq(bs, 2, FirstSpacer(bs) - 1)

\* everything after the first terminator
AfterHeader(bs) == SubSeq(bs, FirstSpacer(bs) + 2, Len(bs))

EncodedAll(items) == Concat([i \in 1..Len(items) |-> Encoded(items[i])])

EncodedEntries(entries) ==
    Concat([i \in 1..Len(entries) |-> Encoded(entries[i][1]) \o Encoded(entries[i][2])])

IsLengthPrefixed(v) ==
    \/ v.t \in {"BulkError", "VerbatimString", "Map", "Set", "Push"}
    \/ v.t \in {"BulkString", "Array"} /\ v.some

IsAggregate(v) == v.t \in {"Map", "Set", "Push"} \/ (v.t = "Array" /\ v.some)

ChildrenOf(v) == IF v.t = "Set" THEN v.members ELSE v.items

(***************************************************************************)
(* C4.  In the bytes written by write_resp_str, the decimal count in the   *)
(* header of a length-prefixed variant equals the payload written after    *)
(* it: the payload bytes before the trailing CR LF for BulkString(Some)    *)
(* and BulkError (also with raw CR / LF in the payload), the text length   *)
(* plus the 4 bytes of `enc:` for VerbatimString, the number of children   *)
(* for Array / Set / Push, the number of pairs for Map.                    *)
(***************************************************************************)
DeclaredCountMatchesPayload ==
    (result = "ok" /\ IsLengthPrefixed(value)) =>
        LET out == sink.out
            n == ParseDecimal(HeaderText(out))
            body == AfterHeader(out)
        IN  /\ IsDigits(HeaderText(out))
            /\ CASE value.t \in {"BulkString", "BulkError"} ->
                        /\ Len(body) = n + 2
                        /\ SubSeq(body, 1, n) = value.s
                        /\ SubSeq(body, n + 1, n + 2) = SPACER
                 [] value.t = "VerbatimString" ->
                        /\ Len(body) = n + 2
                        /\ SubSeq(body, 1, 4) = DisplayVerbatimEncoding(value.enc) \o <<":">>
                        /\ SubSeq(body, 5, n) = value.s
                        /\ n = Len(value.s) + 4
                        /\ SubSeq(body, n + 1, n + 2) = SPACER
                 [] value.t = "Map" ->
                        n = Len(value.entries) /\ body = EncodedEntries(value.entries)
                 [] OTHER ->
                        n = Len(ChildrenOf(value)) /\ body = EncodedAll(ChildrenOf(value))

\* a bulk string whose payload is itself CR LF: `$2\r\n\r\n\r\n`
WitnessBulkWithRawSpacer ==
    /\ value = BulkString(TRUE, <<CR, LF>>)
    /\ result = "ok"
    /\ sink.out = <<"$", "2", CR, LF, CR, LF, CR, LF>>

(***************************************************************************)
(* C5.  When the sink fails while an aggregate is encoded, write_resp_str  *)
(* returns the error, the sink holds exactly what was written before the   *)
(* failing write, and nothing of the rest of the failing child or of any   *)
(* later child is written after it.                                        *)
(***************************************************************************)
FailureStopsAggregate ==
    (result # "none" /\ IsAggregate(value)) =>
        LET ps == Pieces(value)
            f == sink.failAt
        IN  IF f \in 1..Len(ps)
            THEN /\ result = "err"
                 /\ sink.out = Concat(SubSeq(ps, 1, f - 1))
                 /\ IsPrefix(sink.out, Encoded(value))
            ELSE /\ result = "ok"
                 /\ sink.out = Encoded(value)

\* the sink fails inside the first of two children: only `*2\r\n:` is written
WitnessFailureInFirstChild ==
    /\ value = Array(TRUE, <<Integer(1), SimpleString(<<"x">>)>>)
    /\ sink.failAt = 5
    /\ result = "err"
    /\ sink.out = <<"*", "2", CR, LF, ":">>

(***************************************************************************)
(* C6.  Array(Some(children)) and Push(children) encode to the count       *)
(* header followed by the children's own encodings in sequence order, at   *)
(* every nesting level; the nested example of the specification and the    *)
(* value of examples/simple.rs encode to the stated bytes.                 *)
(***************************************************************************)
NestedExample ==
    Array(TRUE, <<Integer(1), Array(TRUE, <<SimpleString(<<"x">>)>>)>>)

AggregateIsHeaderThenChildren ==
    /\ (result = "ok" /\ value.t = "Array" /\ value.some) =>
            sink.out = <<"*">> \o DisplayUsize(Len(value.items)) \o SPACER
                       \o EncodedAll(value.items)
    /\ (result = "ok" /\ value.t = "Push") =>
            sink.out = <<">">> \o DisplayUsize(Len(value.items)) \o SPACER
                       \o EncodedAll(value.items)
    /\ (result = "ok" /\ value = NestedExample) =>
            sink.out = <<"*", "2", CR, LF, ":", "1", CR, LF,
                         "*", "1", CR, LF, "+", "x", CR, LF>>
    /\ (result = "ok" /\ value = SimpleExample) =>
            sink.out = <<"*", "2", CR, LF, "+", "o", "l", "l", "a", "r", "e", CR, LF,
                         ":", "1", "2", CR, LF>>

WitnessNestedExample ==
    /\ value = NestedExample
    /\ result = "ok"
    /\ Len(sink.out) = 16

(***************************************************************************)
(* C7.  BulkString(None) encodes to exactly `$-1\r\n` and Array(None) to   *)
(* exactly `*-1\r\n`; both differ from the encodings of the empty bulk     *)
(* string and of the empty array.                                          *)
(***************************************************************************)
NullFormsAreExact ==
    /\ (result = "ok" /\ value = BulkString(FALSE, <<>>)) =>
            sink.out = <<"$", "-", "1", CR, LF>>
    /\ (result = "ok" /\ value = Array(FALSE, <<>>)) =>
            sink.out = <<"*", "-", "1", CR, LF>>
    /\ (result = "ok" /\ value = BulkString(TRUE, <<>>)) =>
            /\ sink.out # Encoded(BulkString(FALSE, <<>>))
            /\ sink.out = <<"$", "0", CR, LF, CR, LF>>
    /\ (result = "ok" /\ value = Array(TRUE, <<>>)) =>
            /\ sink.out # Encoded(Array(FALSE, <<>>))
            /\ sink.out = <<"*", "0", CR, LF>>

WitnessNullBulk ==
    /\ value = BulkString(FALSE, <<>>)
    /\ result = "ok"
    /\ Len(sink.out) = 5

(***************************************************************************)
(* Lexer.  A call that indexes the buffer outside its bounds panics; the   *)
(* panic ends the run, with the fields as they were when it was raised.    *)
(***************************************************************************)
Res(kind, err, tok, val) == [kind |-> kind, err |-> err, tok |-> tok, val |-> val]

Ok(tok) == Res("ok", "", tok, NoValue)
Err(e) == Res("err", e, <<>>, NoValue)
Panic == Res("panic", "", <<>>, NoValue)

\* &buffer[from..to] is in bounds (the inputs are ASCII: every index is a
\* character boundary)
InBounds(buf, from, to) == from <= to /\ to <= Len(buf)

\* &buffer[from..to]
Slice(buf, from, to) == SubSeq(buf, from + 1, to)

HasSpacer(bs) == \E i \in 1..Len(bs) : HasSpacerAt(bs, i)

\* splitn(2, SPACER): the text before the first CR LF (all of it when there
\* is none), and the text after it
SplitHead(bs) == IF HasSpacer(bs) THEN SubSeq(bs, 1, FirstSpacer(bs) - 1) ELSE bs
SplitRest(bs) == SubSeq(bs, FirstSpacer(bs) + 2, Len(bs))

\* Lexer::lex
LexResult(buf, pos) == Err("ParsingError")

Running == lastRes.kind # "panic"

Called(op, res) ==
    /\ lastOp' = op
    /\ lastRes' = res
    /\ preBuffer' = buffer
    /\ prePos' = curr_pos
    /\ UNCHANGED <<input, encVars, cmdVars>>

\* Lexer::pop
Pop ==
    /\ Running
    /\ curr_pos' = curr_pos + 1
    /\ UNCHANGED <<buffer>>
    /\ IF InBounds(buffer, curr_pos + 1, curr_pos + 1)
       THEN /\ Called("pop", Ok(Slice(buffer, curr_pos + 1, curr_pos + 1)))
            /\ taken' = taken \o Slice(buffer, curr_pos + 1, curr_pos + 1)
       ELSE /\ Called("pop", Panic)
            /\ UNCHANGED taken

\* Lexer::peek
Peek ==
    /\ Running
    /\ UNCHANGED <<buffer, curr_pos, taken>>
    /\ IF InBounds(buffer, curr_pos, curr_pos)
       THEN Called("peek", Ok(Slice(buffer, curr_pos, curr_pos)))
       ELSE Called("peek", Panic)

\* Lexer::read_spacer
ReadSpacer ==
    /\ Running
    /\ UNCHANGED <<buffer>>
    /\ IF ~InBounds(buffer, curr_pos, curr_pos + 2)
       THEN /\ Called("read_spacer", Panic)
            /\ UNCHANGED <<curr_pos, taken>>
       ELSE IF Slice(buffer, curr_pos, curr_pos + 2) = SPACER
       THEN /\ curr_pos' = curr_pos + 2
            /\ taken' = taken \o SPACER
            /\ Called("read_spacer", Ok(<<>>))
       ELSE /\ Called("read_spacer", Err("WhitespaceError"))
            /\ UNCHANGED <<curr_pos, taken>>

\* Lexer::read_str
ReadStr ==
    /\ Running
    /\ UNCHANGED <<curr_pos>>
    /\ IF ~InBounds(buffer, curr_pos, Len(buffer))
       THEN /\ Called("read_str", Panic)
            /\ UNCHANGED <<buffer, taken>>
       ELSE LET rem == Slice(buffer, curr_pos, Len(buffer))
            IN  IF HasSpacer(rem)
                THEN /\ buffer' = SplitRest(rem)
                     /\ taken' = taken \o SplitHead(rem) \o SPACER
                     /\ Called("read_str", Ok(SplitHead(rem)))
                ELSE /\ Called("read_str", Err("StringError"))
                     /\ UNCHANGED <<buffer, taken>>

\* Lexer::lex
Lex ==
    /\ Running
    /\ UNCHANGED <<buffer, curr_pos, taken>>
    /\ Called("lex", LexResult(buffer, curr_pos))

(***************************************************************************)
(* The inputs a Lexer is constructed over: every short string over the     *)
(* alphabet, the encodings of some values and their strict prefixes, and   *)
(* strings starting with a byte that is no RESP prefix.                    *)
(***************************************************************************)
Hello == <<"h", "e", "l", "l", "o">>

DecodeSamples ==
    {Integer(1), SimpleString(<<"x">>), BulkString(TRUE, Hello), BulkString(FALSE, <<>>),
     Array(FALSE, <<>>), Null, Bool(TRUE), NestedExample}

\* the non-empty strict prefixes of bs
StrictPrefixes(bs) == {SubSeq(bs, 1, k) : k \in 1..(Len(bs) - 1)}

EncodedSamples == {Encoded(v) : v \in DecodeSamples}

PrefixSamples == UNION {StrictPrefixes(e) : e \in EncodedSamples}

UnknownPrefixSamples == {<<"?">>, <<"?", CR, LF>>}

\* a terminator, an empty line, then two more bytes
StreamSamples == {<<CR, LF, CR, LF, "x", "x">>}

LexInputs ==
    SeqsUpTo(Alphabet, MaxBufLen) \cup EncodedSamples \cup PrefixSamples
    \cup UnknownPrefixSamples \cup StreamSamples

InitLex ==
    /\ EncIdle /\ CmdIdle
    /\ input \in LexInputs
    /\ buffer = input
    /\ curr_pos = 0
    /\ taken = <<>>
    /\ preBuffer = input
    /\ prePos = 0
    /\ lastOp = "none"
    /\ lastRes = [kind |-> "none"]

NextLex == Pop \/ Peek \/ ReadSpacer \/ ReadStr \/ Lex

SpecLex == InitLex /\ [][NextLex]_vars

(***************************************************************************)
(* Properties of the Lexer.                                                *)
(***************************************************************************)
\* the last call was made on a Lexer freshly constructed over `input`
FirstCall == preBuffer = input /\ prePos = 0

\* what was left to read when the last call started
PreRemainder == Slice(preBuffer, prePos, Len(preBuffer))

(***************************************************************************)
(* C1.  Round trip: Lexer::lex over the bytes written by write_resp_str    *)
(* for a value v that is not (and holds no) Map or Set returns Ok with a   *)
(* value equal to v.                                                       *)
(***************************************************************************)
LexRoundTrip ==
    \A v \in DecodeSamples :
        (lastOp = "lex" /\ FirstCall /\ input = Encoded(v)) =>
            (lastRes.kind = "ok" /\ lastRes.val = v)

(***************************************************************************)
(* C2.  Lexer::lex on a strict prefix of a valid encoding returns an       *)
(* error outcome, and that outcome differs from the one it returns for a   *)
(* buffer that starts with an unrecognized prefix byte.                    *)
(***************************************************************************)
IncompleteDiffersFromMalformed ==
    (lastOp = "lex" /\ FirstCall /\ input \in PrefixSamples) =>
        /\ lastRes.kind = "err"
        /\ \A bad \in UnknownPrefixSamples : lastRes.err # LexResult(bad, 0).err

(***************************************************************************)
(* C3.  When lex, read_spacer or read_str cannot consume a full token,     *)
(* also when fewer bytes remain than the token needs, the call returns an  *)
(* error value and buffer and curr_pos are what they were before it.       *)
(***************************************************************************)
FailedCallReturnsErrAndKeepsPosition ==
    (lastOp \in {"lex", "read_spacer", "read_str"} /\ lastRes.kind # "ok") =>
        /\ lastRes.kind = "err"
        /\ buffer = preBuffer
        /\ curr_pos = prePos

(***************************************************************************)
(* C9.  After any sequence of successful read_str, read_spacer and pop     *)
(* calls, the bytes consumed are a prefix of the input equal to the        *)
(* tokens returned and terminators accepted, in call order, and what is    *)
(* left to read is the rest of the input: no byte skipped, none read       *)
(* twice.                                                                  *)
(***************************************************************************)
ConsumedIsContiguousPrefix ==
    (Running /\ InBounds(buffer, curr_pos, Len(buffer))) =>
        input = taken \o Slice(buffer, curr_pos, Len(buffer))

\* the same on the stream sample, where only read_spacer and read_str succeed
\* (pop is left out): after both, the two bytes left are still to be read
NoByteSkippedByReads ==
    (input \in StreamSamples /\ taken = <<CR, LF, CR, LF>>) =>
        /\ InBounds(buffer, curr_pos, Len(buffer))
        /\ Slice(buffer, curr_pos, Len(buffer)) = <<"x", "x">>

(***************************************************************************)
(* C10.  read_str returns the text from the current position up to the     *)
(* first CR LF, keeping a lone CR or LF in it, and returns an error when   *)
(* no CR LF occurs before the end of the buffer.                           *)
(***************************************************************************)
ReadStrStopsAtFirstSpacer ==
    (lastOp = "read_str") =>
        IF InBounds(preBuffer, prePos, Len(preBuffer)) /\ HasSpacer(PreRemainder)
        THEN /\ lastRes.kind = "ok"
             /\ lastRes.tok = SubSeq(PreRemainder, 1, FirstSpacer(PreRemainder) - 1)
        ELSE lastRes.kind = "err"

\* the same, for calls that start inside the buffer
ReadStrStopsAtFirstSpacerInBounds ==
    (lastOp = "read_str" /\ InBounds(preBuffer, prePos, Len(preBuffer))) =>
        IF HasSpacer(PreRemainder)
        THEN /\ lastRes.kind = "ok"
             /\ lastRes.tok = SubSeq(PreRemainder, 1, FirstSpacer(PreRemainder) - 1)
        ELSE lastRes.kind = "err"

(***************************************************************************)
(* Command translation.  The crate declares Cmd, Action, System and        *)
(* HelloCmd but holds no translator; it is modelled from section 4.4 of    *)
(* the specification: to_command(value) -> Result<Command, CommandError>.  *)
(***************************************************************************)
LowerChars == <<"a", "b", "c", "d", "e", "f", "g", "h", "i", "j", "k", "l", "m",
                "n", "o", "p", "q", "r", "s", "t", "u", "v", "w", "x", "y", "z">>
UpperChars == <<"A", "B", "C", "D", "E", "F", "G", "H", "I", "J", "K", "L", "M",
                "N", "O", "P", "Q", "R", "S", "T", "U", "V", "W", "X", "Y", "Z">>

ToUpperChar(c) ==
    IF \E i \in 1..26 : LowerChars[i] = c
    THEN UpperChars[CHOOSE i \in 1..26 : LowerChars[i] = c]
    ELSE c

ToUpper(w) == [i \in 1..Len(w) |-> ToUpperChar(w[i])]

GET == <<"G", "E", "T">>
SET == <<"S", "E", "T">>
DEL == <<"D", "E", "L">>
PING == <<"P", "I", "N", "G">>
ECHO == <<"E", "C", "H", "O">>
HELLO == <<"H", "E", "L", "L", "O">>
AUTH == <<"A", "U", "T", "H">>
SETNAME == <<"S", "E", "T", "N", "A", "M", "E">>

NoCmd == [family |-> "none"]

CmdOk(cmd) == [kind |-> "cmd", err |-> "", cmd |-> cmd]
CmdErr(e) == [kind |-> "err", err |-> e, cmd |-> NoCmd]

IsStringArg(v) == v.t = "SimpleString" \/ (v.t = "BulkString" /\ v.some)

IsArgArray(v) ==
    /\ v.t = "Array" /\ v.some /\ Len(v.items) >= 1
    /\ \A i \in 1..Len(v.items) : IsStringArg(v.items[i])

HelloCmd(version, auth, client_name) ==
    [version |-> version, auth |-> auth, client_name |-> client_name]

\* the AUTH user pass / SETNAME name clauses of HELLO, in any order
RECURSIVE HelloClauses(_, _)
HelloClauses(hello, rest) ==
    IF rest = <<>> THEN CmdOk([family |-> "System", op |-> HELLO, hello |-> hello])
    ELSE IF ToUpper(Head(rest)) = AUTH
    THEN IF Len(rest) < 3 THEN CmdErr("Arity")
         ELSE HelloClauses([hello EXCEPT !.auth = <<rest[2], rest[3]>>],
                           SubSeq(rest, 4, Len(rest)))
    ELSE IF ToUpper(Head(rest)) = SETNAME
    THEN IF Len(rest) < 2 THEN CmdErr("Arity")
         ELSE HelloClauses([hello EXCEPT !.client_name = <<rest[2]>>],
                           SubSeq(rest, 3, Len(rest)))
    ELSE CmdErr("Malformed")

ParseHello(args) ==
    IF args # <<>> /\ Head(args) \in {<<"2">>, <<"3">>}
    THEN HelloClauses(HelloCmd(IF Head(args) = <<"2">> THEN "V2" ELSE "V3", <<>>, <<>>),
                      Tail(args))
    ELSE HelloClauses(HelloCmd("None", <<>>, <<>>), args)

\* A translator that takes the arguments it needs without counting them.
ToCommandNoArity(v) ==
    IF ~IsArgArray(v) THEN CmdErr("Malformed")
    ELSE LET name == ToUpper(v.items[1].s)
             args == [i \in 1..(Len(v.items) - 1) |-> v.items[i + 1].s]
             arg1 == IF args = <<>> THEN <<>> ELSE args[1]
         IN  CASE name \in {GET, DEL} ->
                    CmdOk([family |-> "Action", op |-> name, key |-> arg1])
               [] name = SET ->
                    CmdOk([family |-> "Action", op |-> name, key |-> arg1,
                           val |-> IF Len(args) < 2 THEN NoValue ELSE v.items[3]])
               [] name \in {PING, ECHO} ->
                    CmdOk([family |-> "System", op |-> name, text |-> arg1])
               [] name = HELLO -> ParseHello(args)
               [] OTHER -> CmdErr("Unknown")

ToCommand(v) ==
    IF ~IsArgArray(v) THEN CmdErr("Malformed")
    ELSE LET name == ToUpper(v.items[1].s)
             args == [i \in 1..(Len(v.items) - 1) |-> v.items[i + 1].s]
         IN  CASE name \in {GET, DEL} ->
                    IF Len(args) = 1
                    THEN CmdOk([family |-> "Action", op |-> name, key |-> args[1]])
                    ELSE CmdErr("Arity")
               [] name = SET ->
                    IF Len(args) = 2
                    THEN CmdOk([family |-> "Action", op |-> name, key |-> args[1],
                                val |-> v.items[3]])
                    ELSE CmdErr("Arity")
               [] name = PING ->
                    IF Len(args) <= 1
                    THEN CmdOk([family |-> "System", op |-> name,
                                text |-> IF args = <<>> THEN <<>> ELSE args[1]])
                    ELSE CmdErr("Arity")
               [] name = ECHO ->
                    IF Len(args) = 1
                    THEN CmdOk([family |-> "System", op |-> name, text |-> args[1]])
                    ELSE CmdErr("Arity")
               [] name = HELLO -> ParseHello(args)
               [] OTHER -> CmdErr("Unknown")

\* The parsed values handed to the translator.
CmdNames == {GET, <<"g", "e", "t">>, SET, DEL, PING, ECHO, <<"F", "O", "O">>}

ArgWords == {<<"k">>, <<"v">>}

StringArgs(words) == [i \in 1..Len(words) |-> BulkString(TRUE, words[i])]

HelloArgLists ==
    LET full == <<(<<"3">>), AUTH, (<<"u">>), (<<"p">>), SETNAME, (<<"n">>)>>
    IN  {SubSeq(full, 1, k) : k \in 0..Len(full)}
        \cup {SubSeq(full, 2, k) : k \in 1..Len(full)}

CmdInputs ==
    {Array(TRUE, StringArgs(<<n>> \o a)) : n \in CmdNames, a \in SeqsUpTo(ArgWords, MaxArgs)}
    \cup {Array(TRUE, StringArgs(<<HELLO>> \o a)) : a \in HelloArgLists}
    \cup {Array(TRUE, <<SimpleString(GET), SimpleString(<<"k">>)>>),
          Array(TRUE, <<>>), Array(FALSE, <<>>), Integer(1),
          Array(TRUE, <<BulkString(TRUE, GET), Integer(1)>>)}

Translate ==
    \E v \in CmdInputs :
        /\ cmdRes.kind = "none"
        /\ cmdArgs' = v
        /\ cmdRes' = ToCommand(v)
        /\ UNCHANGED <<encVars, lexVars>>

InitCmd == EncIdle /\ LexIdle /\ CmdIdle

NextCmd == Translate

SpecCmd == InitCmd /\ [][NextCmd]_vars

(***************************************************************************)
(* C8.  Translating an Array of string arguments selects the command by    *)
(* its first argument and checks arity: a known name with the wrong        *)
(* number of arguments yields the arity error, an unknown name yields the  *)
(* unknown-command error, and neither yields a command.                    *)
(***************************************************************************)
ArgCounts(name) ==
    CASE name \in {GET, DEL, ECHO} -> {1}
      [] name = SET -> {2}
      [] name = PING -> {0, 1}

CommandArityAndUnknown ==
    (cmdRes.kind # "none" /\ IsArgArray(cmdArgs)) =>
        LET name == ToUpper(cmdArgs.items[1].s)
            n == Len(cmdArgs.items) - 1
        IN  /\ (name \in {GET, SET, DEL, PING, ECHO} /\ n \notin ArgCounts(name)) =>
                    (cmdRes.kind = "err" /\ cmdRes.err = "Arity" /\ cmdRes.cmd = NoCmd)
            /\ (name \in {GET, SET, DEL, PING, ECHO} /\ n \in ArgCounts(name)) =>
                    (cmdRes.kind = "cmd" /\ cmdRes.cmd.op = name)
            /\ (name \notin {GET, SET, DEL, PING, ECHO, HELLO}) =>
                    (cmdRes.kind = "err" /\ cmdRes.err = "Unknown" /\ cmdRes.cmd = NoCmd)

\* ["GET"] with no key
WitnessGetWithoutKey ==
    /\ cmdArgs = Array(TRUE, <<BulkString(TRUE, GET)>>)
    /\ cmdRes = CmdErr("Arity")

====
